---- MODULE Spec2Model ----
(***************************************************************************)
(* Model of src/main.py: anonymize_csv reads a CSV file into a table,      *)
(* hashes the columns named in the mask list (mask_data / hash_data),      *)
(* adds Laplace noise to every numeric column (is_numeric_column /         *)
(* create_noisy_data / add_noise) and writes the table back (to_csv).      *)
(*                                                                         *)
(* A cell is a record [t, n, s]: t is the kind of the value ("int",         *)
(* "float", "str", or "nan" for the float NaN), n its number (0 for a       *)
(* string or NaN) and s its text ("" otherwise).  Floats are kept           *)
(* integer-valued: the sampled noise is drawn from a bounded set of integers.  A table (DataFrame) is a       *)
(* record [columns, dtype, data]: the ordered column names, each column's   *)
(* dtype ("int64", "float64", "object") and each column's cells by row.     *)
(***************************************************************************)
EXTENDS Integers, Sequences, FiniteSets

VARIABLES
    pc,            \* position in anonymize_csv
    input_file,    \* what reading the input path yields: [kind, rows]
    writable,      \* whether output_file can be written
    mask_columns,  \* the mask list (argument, never changed)
    epsilon,       \* the privacy parameter (argument, never changed)
    df,            \* the table
    i,             \* mask_data: index of the next name of the mask list
    j,             \* anonymize_csv: index of the next column of df.columns
    log,           \* the diagnostics printed so far
    written,       \* the content of the output file (NoFile until written)
    escaped,       \* an exception has propagated out of anonymize_csv
    loaded,        \* history: the table as read_csv returned it
    stages,        \* history: the components entered, in order
    hashed,        \* history: the columns mask_data has assigned
    selected,      \* history: the columns handed to create_noisy_data
    drawn          \* history: the noise sampled for each assigned column

vars == <<pc, input_file, writable, mask_columns, epsilon, df, i, j, log,
          written, escaped, loaded, stages, hashed, selected, drawn>>

\* ------------------------------------------------------------- bounds
\* most data rows in the input file
MaxRows == 2
\* most names in the mask list
MaxMask == 2
\* the sampled noise lies in -MaxNoise .. MaxNoise
MaxNoise == 1

\* ------------------------------------------------------------- inputs
\* the header row of the input file
Header == <<"name", "age">>
\* the data rows an input file is made of (text fields, in header order)
FileRows == { <<"Alice", "30">>, <<"Alice", "41">>, <<"Bob", "n/a">> }
\* the names a mask list is made of ("ssn" is no column of the file)
MaskNames == {"name", "age", "ssn"}
\* the epsilon values a caller supplies (argparse accepts any float)
EpsilonValues == {-1, 0, 1, 2}
\* outcomes of reading the input path
ReadKinds == {"ok", "missing", "malformed", "empty"}

SeqsUpTo(S, n) == UNION { [1..k -> S] : k \in 0..n }

\* ------------------------------------------------------------- text
Digit(d) ==
    CASE d = 0 -> "0" [] d = 1 -> "1" [] d = 2 -> "2" [] d = 3 -> "3"
      [] d = 4 -> "4" [] d = 5 -> "5" [] d = 6 -> "6" [] d = 7 -> "7"
      [] d = 8 -> "8" [] d = 9 -> "9"

RECURSIVE NatToStr(_)
NatToStr(n) ==
    IF n < 10 THEN Digit(n) ELSE NatToStr(n \div 10) \o Digit(n % 10)

IntToStr(n) == IF n < 0 THEN "-" \o NatToStr(-n) ELSE NatToStr(n)

IntCell(n) == [t |-> "int", n |-> n, s |-> ""]
FloatCell(n) == [t |-> "float", n |-> n, s |-> ""]
StrCell(s) == [t |-> "str", n |-> 0, s |-> s]
\* the float NaN read_csv stores for a missing value
NaNCell == [t |-> "nan", n |-> 0, s |-> ""]

\* Python's str(x) of a cell value: 30 -> "30", 30.0 -> "30.0", nan -> "nan",
\* "Bob" -> "Bob"
Str(x) ==
    CASE x.t = "int" -> IntToStr(x.n)
      [] x.t = "float" -> IntToStr(x.n) \o ".0"
      [] x.t = "nan" -> "nan"
      [] OTHER -> x.s

\* hashlib.sha256(text.encode()).hexdigest(): the digests of the texts the
\* inputs above give rise to (and of those digests, for a column hashed
\* again); any other text keeps a symbolic digest, injective by construction
Sha256Hex(text) ==
  CASE text = "Alice"
      -> "3bc51062973c458d5a6f2d8d64a023246354ad7e064b1e4e009ec8a0699a3043"
    [] text = "Bob"
      -> "cd9fb1e148ccd8442e5aa74904cc73bf6fb54d1d54d333bd596aa9bb4bb4e961"
    [] text = "30"
      -> "624b60c58c9d8bfb6ff1886c2fd605d2adeb6ea4da576068201b6c6958ce93f4"
    [] text = "41"
      -> "3d914f9348c9cc0ff8a79716700b9fcd4d2f3e711608004eb8f138bcba7f14d9"
    [] text = "30.0"
      -> "26c9a96ce053a14dd88a71a4830c9cbed7e1fed7e3f3f8a0b0b6a58f3f0f02e6"
    [] text = "41.0"
      -> "aae57dbd4a6b14eb112a98a258bd5de68e894b13e89752c57b1b2d9d62d07e54"
    [] text = "nan"
      -> "9b2d5b4678781e53038e91ea5324530a03f27dc1d0e5f6c9bc9d493a23be9de0"
    [] text = "3bc51062973c458d5a6f2d8d64a023246354ad7e064b1e4e009ec8a0699a3043"
      -> "150653f51df5e2aa0bda45b6f68ab4fd2c9c5620042baf6124bf5af302780115"
    [] text = "cd9fb1e148ccd8442e5aa74904cc73bf6fb54d1d54d333bd596aa9bb4bb4e961"
      -> "ec4006a60556d0f521847f487c4e0c57ee1a84982aa64a4fac2837fc71356d51"
    [] text = "624b60c58c9d8bfb6ff1886c2fd605d2adeb6ea4da576068201b6c6958ce93f4"
      -> "bd691190bca20d5b60b0ba07acb3bbe68951b8ca575dbd6617ae2e936860940b"
    [] text = "3d914f9348c9cc0ff8a79716700b9fcd4d2f3e711608004eb8f138bcba7f14d9"
      -> "2c75e8b85bab5e21343c80bab2c3f49a252070ad148f5cc516be2ed7677bafd5"
    [] text = "26c9a96ce053a14dd88a71a4830c9cbed7e1fed7e3f3f8a0b0b6a58f3f0f02e6"
      -> "a0d25e97f786f47f215b409d33b613b0d8f00ff7957e7c5e3edb105a61a19c93"
    [] text = "aae57dbd4a6b14eb112a98a258bd5de68e894b13e89752c57b1b2d9d62d07e54"
      -> "ada9a33c629c95e431f5d52e6a69383ecb4e2e2bb3c5b3a3de9afb039a02251b"
    [] text = "9b2d5b4678781e53038e91ea5324530a03f27dc1d0e5f6c9bc9d493a23be9de0"
      -> "b79a231072079ac5ac3f9c2c1b6de3d9966ab8cb936de7a9ad904adb567b6a8e"
    [] text = "150653f51df5e2aa0bda45b6f68ab4fd2c9c5620042baf6124bf5af302780115"
      -> "aef8f41ff11f91611a6deb8e9f0d60988d45bf20f92b57451474bbb296e3244c"
    [] text = "ec4006a60556d0f521847f487c4e0c57ee1a84982aa64a4fac2837fc71356d51"
      -> "ce91c057ac5d6247a3dbf1da68dc7d79bb181cc72bb478cf720d38ac45452abc"
    [] text = "bd691190bca20d5b60b0ba07acb3bbe68951b8ca575dbd6617ae2e936860940b"
      -> "14a069ab373ce664aee681ed416da425993d4f6ee22f2dd12ce7e86b934d0b46"
    [] text = "2c75e8b85bab5e21343c80bab2c3f49a252070ad148f5cc516be2ed7677bafd5"
      -> "9f939444ea40841f9f7ad1e1cbb13643bce1b6522c4392679fec4a3501dda966"
    [] text = "a0d25e97f786f47f215b409d33b613b0d8f00ff7957e7c5e3edb105a61a19c93"
      -> "c71ee9230e0335a706857a342b24b6d19702eb49c3bd2dc95c2b329767882264"
    [] text = "ada9a33c629c95e431f5d52e6a69383ecb4e2e2bb3c5b3a3de9afb039a02251b"
      -> "a824b5b9de9a00023c90d01d98ff8f1362ab09e5c6a30675550a7a5c532e4778"
    [] text = "b79a231072079ac5ac3f9c2c1b6de3d9966ab8cb936de7a9ad904adb567b6a8e"
      -> "2a8eedd2bb2a66e13296016a17c978845ddadd1ab2c8517433165c79074a3e65"
    [] OTHER -> "sha256(" \o text \o ")"

\* ------------------------------------------------------------- hash_data
\* a salted variant: the digest also depends on a value of the run
hash_data_salted(input_string) ==
    Sha256Hex(input_string \o "|" \o IntToStr(epsilon))

hash_data(input_string) == Sha256Hex(input_string)

\* ------------------------------------------------------------- add_noise
\* the sensitivity parameter's default (the only value ever passed)
Sensitivity == 1

\* values np.random.laplace(0, scale) can return for a scale > 0
NoiseValues == (0 - MaxNoise) .. MaxNoise

NoException == ""

\* a variant that returns the value without the noise
add_noise_dropped(value, eps, noise) ==
    IF eps = 0 THEN [exc |-> "ZeroDivisionError", val |-> value]
    ELSE IF Sensitivity * eps < 0 THEN [exc |-> "ValueError", val |-> value]
    ELSE IF value.t = "str" THEN [exc |-> "TypeError", val |-> value]
    ELSE IF value.t = "nan" THEN [exc |-> NoException, val |-> NaNCell]
    ELSE [exc |-> NoException, val |-> FloatCell(value.n)]

\* scale = sensitivity / epsilon raises for epsilon = 0; the sampler raises
\* for a negative scale; value + noise raises for a string, is NaN for NaN
\* and a float otherwise.  noise is the sample the call draws.
add_noise(value, eps, noise) ==
    IF eps = 0 THEN [exc |-> "ZeroDivisionError", val |-> value]
    ELSE IF Sensitivity * eps < 0 THEN [exc |-> "ValueError", val |-> value]
    ELSE IF value.t = "str" THEN [exc |-> "TypeError", val |-> value]
    ELSE IF value.t = "nan" THEN [exc |-> NoException, val |-> NaNCell]
    ELSE [exc |-> NoException, val |-> FloatCell(value.n + noise)]

\* ------------------------------------------------------------- tables
NoDf == [columns |-> <<>>, dtype |-> <<>>, data |-> <<>>]

Range(f) == { f[x] : x \in DOMAIN f }

NRows(d) == IF Len(d.columns) = 0 THEN 0 ELSE Len(d.data[d.columns[1]])

Diagnostic(kind, column, exc) == [kind |-> kind, column |-> column, exc |-> exc]

\* Series.apply keeps the dtype of an empty column
ApplyDtype(d, column, dtype) ==
    IF Len(d.data[column]) = 0 THEN d.dtype[column] ELSE dtype

\* ------------------------------------------------------------- create_noisy_data
\* a variant that converts the column to float before the try block
create_noisy_data_cast(d, column, eps, noise) ==
    LET cells == d.data[column]
        res == [r \in 1..Len(cells) |-> add_noise(cells[r], eps, noise[r])]
        bad == { r \in 1..Len(cells) : res[r].exc # NoException }
        cast == [r \in 1..Len(cells) |->
                    IF cells[r].t = "int" THEN FloatCell(cells[r].n) ELSE cells[r]]
    IN  IF bad = {}
        THEN [df |-> [d EXCEPT !.data[column] = [r \in 1..Len(cells) |-> res[r].val],
                               !.dtype[column] = ApplyDtype(d, column, "float64")],
              printed |-> <<>>, raised |-> NoException]
        ELSE [df |-> [d EXCEPT !.data[column] = cast],
              printed |-> <<Diagnostic("noise_error", column,
                              res[CHOOSE r \in bad : \A q \in bad : r <= q].exc)>>,
              raised |-> NoException]

\* df[column] = df[column].apply(lambda x: add_noise(x, epsilon)) inside
\* try/except: the new column is assigned only when no cell raised; the
\* first cell that raises ends apply, and the handler prints.
create_noisy_data(d, column, eps, noise) ==
    LET cells == d.data[column]
        res == [r \in 1..Len(cells) |-> add_noise(cells[r], eps, noise[r])]
        bad == { r \in 1..Len(cells) : res[r].exc # NoException }
    IN  IF bad = {}
        THEN [df |-> [d EXCEPT !.data[column] = [r \in 1..Len(cells) |-> res[r].val],
                               !.dtype[column] = ApplyDtype(d, column, "float64")],
              printed |-> <<>>, raised |-> NoException]
        ELSE [df |-> d,
              printed |-> <<Diagnostic("noise_error", column,
                              res[CHOOSE r \in bad : \A q \in bad : r <= q].exc)>>,
              raised |-> NoException]

\* ------------------------------------------------------------- mask_data
\* a variant without the try/except around the column
mask_column_unguarded(d, column) ==
    IF column \notin Range(d.columns)
    THEN [df |-> d, printed |-> <<>>, raised |-> "KeyError"]
    ELSE [df |-> [d EXCEPT
                    !.data[column] = [r \in 1..Len(d.data[column]) |->
                                        StrCell(hash_data(Str(d.data[column][r])))],
                    !.dtype[column] = ApplyDtype(d, column, "object")],
          printed |-> <<>>, raised |-> NoException]

\* the body of the loop of mask_data for one name: df[column] raises KeyError
\* for an absent name (caught and printed), else every cell becomes the
\* digest of its str()
mask_column(d, column) ==
    IF column \notin Range(d.columns)
    THEN [df |-> d, printed |-> <<Diagnostic("hash_error", column, "KeyError")>>,
          raised |-> NoException]
    ELSE [df |-> [d EXCEPT
                    !.data[column] = [r \in 1..Len(d.data[column]) |->
                                        StrCell(hash_data(Str(d.data[column][r])))],
                    !.dtype[column] = ApplyDtype(d, column, "object")],
          printed |-> <<>>, raised |-> NoException]

\* a variant with the try around the whole loop: a failure ends the loop
mask_data_next_abort(idx, columns, failed) ==
    IF failed THEN Len(columns) + 1 ELSE idx + 1

\* the for loop of mask_data goes on to the next name, failure or not
mask_data_next(idx, columns, failed) == idx + 1

\* ------------------------------------------------------------- is_numeric_column
\* a variant that looks at the dtype the column was loaded with
is_numeric_column_stale(d, column) ==
    loaded.dtype[column] \in {"int64", "float64", "bool"}

\* pd.api.types.is_numeric_dtype(df[column])
is_numeric_column(d, column) ==
    d.dtype[column] \in {"int64", "float64", "bool"}

\* ------------------------------------------------------------- pd.read_csv
\* the integers a field of the file can denote
IntTexts == 0 .. 99

\* the text of each of them
IntTextOf == [n \in IntTexts |-> IntToStr(n)]

IsIntText(text) == \E n \in IntTexts : IntTextOf[n] = text

ParseInt(text) == CHOOSE n \in IntTexts : IntTextOf[n] = text

\* the strings read_csv takes for a missing value (keep_default_na)
NaStrings == {"", "#N/A", "#N/A N/A", "#NA", "-1.#IND", "-1.#QNAN", "-NaN",
              "-nan", "1.#IND", "1.#QNAN", "<NA>", "N/A", "NA", "NULL", "NaN",
              "None", "n/a", "nan", "null"}

\* type inference of read_csv: a field that is an NA string is read as NaN;
\* a column whose other fields all parse as integers is int64 when it has
\* no NaN and float64 when it has; any other column is object and keeps its
\* fields as strings; every column of a file without data rows is object
read_csv(file) ==
    CASE file.kind = "missing" -> [exc |-> "FileNotFoundError", df |-> NoDf]
      [] file.kind = "malformed" -> [exc |-> "ParserError", df |-> NoDf]
      [] file.kind = "empty" -> [exc |-> "EmptyDataError", df |-> NoDf]
      [] OTHER ->
           LET rows == file.rows
               pos(c) == CHOOSE k \in 1..Len(Header) : Header[k] = c
               field(c, r) == rows[r][pos(c)]
               isNa(c, r) == field(c, r) \in NaStrings
               hasNa(c) == \E r \in 1..Len(rows) : isNa(c, r)
               isNum(c) == /\ Len(rows) > 0
                           /\ \A r \in 1..Len(rows) :
                                isNa(c, r) \/ IsIntText(field(c, r))
           IN  [exc |-> NoException,
                df |-> [columns |-> Header,
                        dtype |-> [c \in Range(Header) |->
                                     IF ~isNum(c) THEN "object"
                                     ELSE IF hasNa(c) THEN "float64" ELSE "int64"],
                        data |-> [c \in Range(Header) |->
                                    [r \in 1..Len(rows) |->
                                       IF isNa(c, r) THEN NaNCell
                                       ELSE IF ~isNum(c) THEN StrCell(field(c, r))
                                       ELSE IF hasNa(c)
                                       THEN FloatCell(ParseInt(field(c, r)))
                                       ELSE IntCell(ParseInt(field(c, r)))]]]]

\* a variant whose ParserError handler lacks the return
load_no_return(file) ==
    LET r == read_csv(file)
    IN  CASE r.exc = NoException ->
               [df |-> r.df, printed |-> <<>>, returned |-> FALSE]
          [] r.exc = "FileNotFoundError" ->
               [df |-> NoDf, printed |-> <<Diagnostic("not_found", "", r.exc)>>,
                returned |-> TRUE]
          [] r.exc = "ParserError" ->
               [df |-> NoDf, printed |-> <<Diagnostic("parse_error", "", r.exc)>>,
                returned |-> FALSE]
          [] OTHER ->
               [df |-> NoDf, printed |-> <<Diagnostic("read_error", "", r.exc)>>,
                returned |-> TRUE]

\* the try/except around read_csv: each handler prints and returns
load(file) ==
    LET r == read_csv(file)
    IN  CASE r.exc = NoException ->
               [df |-> r.df, printed |-> <<>>, returned |-> FALSE]
          [] r.exc = "FileNotFoundError" ->
               [df |-> NoDf, printed |-> <<Diagnostic("not_found", "", r.exc)>>,
                returned |-> TRUE]
          [] r.exc = "ParserError" ->
               [df |-> NoDf, printed |-> <<Diagnostic("parse_error", "", r.exc)>>,
                returned |-> TRUE]
          [] OTHER ->
               [df |-> NoDf, printed |-> <<Diagnostic("read_error", "", r.exc)>>,
                returned |-> TRUE]

\* ------------------------------------------------------------- df.to_csv
NoFile == [exists |-> FALSE, header |-> <<>>, rows |-> <<>>]

\* the field to_csv writes for a value: NaN as the empty string (na_rep),
\* anything else as its str()
CsvField(x) == IF x.t = "nan" THEN "" ELSE Str(x)

\* a variant without index=False: the row index is written as a first column
to_csv_index(d) ==
    [exists |-> TRUE,
     header |-> <<"">> \o d.columns,
     rows |-> [r \in 1..NRows(d) |->
                 <<IntToStr(r - 1)>> \o
                 [k \in 1..Len(d.columns) |-> CsvField(d.data[d.columns[k]][r])]]]

\* df.to_csv(output_file, index=False): the header, then each row's fields
\* in column order
to_csv(d) ==
    [exists |-> TRUE,
     header |-> d.columns,
     rows |-> [r \in 1..NRows(d) |->
                 [k \in 1..Len(d.columns) |-> CsvField(d.data[d.columns[k]][r])]]]

\* ------------------------------------------------------------- anonymize_csv
Order == <<"Loader", "Masker", "Noiser", "Writer">>

\* a variant that runs the noise loop before mask_data
StageAfter_swapped(stage) ==
    CASE stage = "Loader" -> "Noiser"
      [] stage = "Noiser" -> "Masker"
      [] stage = "Masker" -> "Writer"
      [] OTHER -> "done"

\* the statement order of anonymize_csv: read, mask_data, the noise loop,
\* to_csv, return
StageAfter(stage) ==
    CASE stage = "Loader" -> "Masker"
      [] stage = "Masker" -> "Noiser"
      [] stage = "Noiser" -> "Writer"
      [] OTHER -> "done"

Enter(stage) == IF stage = "done" THEN stages ELSE Append(stages, stage)

Init ==
    /\ pc = "Loader"
    /\ input_file \in
         { [kind |-> k, rows |-> <<>>] : k \in ReadKinds \ {"ok"} }
         \cup { [kind |-> "ok", rows |-> rs] : rs \in SeqsUpTo(FileRows, MaxRows) }
    /\ writable \in BOOLEAN
    /\ mask_columns \in SeqsUpTo(MaskNames, MaxMask)
    /\ epsilon \in EpsilonValues
    /\ df = NoDf
    /\ i = 1
    /\ j = 1
    /\ log = <<>>
    /\ written = NoFile
    /\ escaped = FALSE
    /\ loaded = NoDf
    /\ stages = <<"Loader">>
    /\ hashed = {}
    /\ selected = {}
    /\ drawn = {}

\* the conditions under which each step of anonymize_csv is taken
AtLoad == pc = "Loader"
AtMaskColumn == pc = "Masker" /\ i <= Len(mask_columns)
AtMaskReturn == pc = "Masker" /\ i > Len(mask_columns)
AtNoiseColumn == pc = "Noiser" /\ j <= Len(df.columns)
AtNoiseReturn == pc = "Noiser" /\ j > Len(df.columns)
AtWrite == pc = "Writer"

\* lines 43-54: read the file; on any exception print and return
Load ==
    /\ AtLoad
    /\ LET res == load(input_file)
       IN  /\ df' = res.df
           /\ loaded' = res.df
           /\ log' = log \o res.printed
           /\ pc' = IF res.returned THEN "done" ELSE StageAfter("Loader")
           /\ stages' = IF res.returned THEN stages ELSE Enter(StageAfter("Loader"))
    /\ UNCHANGED <<input_file, writable, mask_columns, epsilon, i, j, written,
                   escaped, hashed, selected, drawn>>

\* lines 30-34: one iteration of the loop of mask_data
MaskColumn ==
    /\ AtMaskColumn
    /\ LET column == mask_columns[i]
           res == mask_column(df, column)
       IN  /\ df' = res.df
           /\ log' = log \o res.printed
           /\ hashed' = IF res.printed = <<>> /\ res.raised = NoException
                        THEN hashed \cup {column} ELSE hashed
           /\ escaped' = (res.raised # NoException)
           /\ pc' = IF res.raised # NoException THEN "done" ELSE pc
           /\ i' = mask_data_next(i, mask_columns, res.printed # <<>>)
    /\ UNCHANGED <<input_file, writable, mask_columns, epsilon, j, written,
                   loaded, stages, selected, drawn>>

\* line 30 exhausted: mask_data returns to anonymize_csv
MaskReturn ==
    /\ AtMaskReturn
    /\ pc' = StageAfter("Masker")
    /\ stages' = Enter(StageAfter("Masker"))
    /\ UNCHANGED <<input_file, writable, mask_columns, epsilon, df, i, j, log,
                   written, escaped, loaded, hashed, selected, drawn>>

\* lines 60-62: one iteration of the loop over df.columns
NoiseColumn ==
    /\ AtNoiseColumn
    /\ LET column == df.columns[j]
       IN  IF is_numeric_column(df, column)
           THEN \E noise \in [1..Len(df.data[column]) ->
                                IF epsilon > 0 THEN NoiseValues ELSE {0}] :
                  LET res == create_noisy_data(df, column, epsilon, noise)
                  IN  /\ df' = res.df
                      /\ log' = log \o res.printed
                      /\ selected' = selected \cup {column}
                      /\ drawn' = IF res.printed = <<>>
                                  THEN drawn \cup {[column |-> column, noise |-> noise]}
                                  ELSE drawn
           ELSE UNCHANGED <<df, log, selected, drawn>>
    /\ j' = j + 1
    /\ UNCHANGED <<pc, input_file, writable, mask_columns, epsilon, i, written,
                   escaped, loaded, stages, hashed>>

\* line 60 exhausted
NoiseReturn ==
    /\ AtNoiseReturn
    /\ pc' = StageAfter("Noiser")
    /\ stages' = Enter(StageAfter("Noiser"))
    /\ UNCHANGED <<input_file, writable, mask_columns, epsilon, df, i, j, log,
                   written, escaped, loaded, hashed, selected, drawn>>

\* lines 65-69: write the table, or print the error
Write ==
    /\ AtWrite
    /\ IF writable
       THEN /\ written' = to_csv(df)
            /\ log' = Append(log, Diagnostic("written", "", NoException))
       ELSE /\ written' = written
            /\ log' = Append(log, Diagnostic("write_error", "", "OSError"))
    /\ pc' = StageAfter("Writer")
    /\ stages' = Enter(StageAfter("Writer"))
    /\ UNCHANGED <<input_file, writable, mask_columns, epsilon, df, i, j,
                   escaped, loaded, hashed, selected, drawn>>

Next ==
    \/ Load
    \/ MaskColumn
    \/ MaskReturn
    \/ NoiseColumn
    \/ NoiseReturn
    \/ Write

Spec == Init /\ [][Next]_vars

\* ------------------------------------------------------------- vocabulary of the properties
IsPrefix(s, t) == Len(s) <= Len(t) /\ \A k \in 1..Len(s) : s[k] = t[k]

Entered(stage) == stage \in Range(stages)

LoadSucceeded == Entered("Masker") \/ Entered("Noiser") \/ Entered("Writer")

\* how many of the first n names of the mask list are name
Occurrences(name, n) == Cardinality({ k \in 1..n : mask_columns[k] = name })

\* the names of the mask list mask_data has gone through
Processed == IF Len(mask_columns) < i - 1 THEN Len(mask_columns) ELSE i - 1

Absent(name) == name \notin Range(loaded.columns)

Rows(d) == 1..NRows(d)

NumericAsLoaded(c) == loaded.dtype[c] \in {"int64", "float64", "bool"}

\* k-fold SHA-256 hex digest, written out independently of hash_data
RECURSIVE DigestTimes(_, _)
DigestTimes(text, k) ==
    IF k = 0 THEN text ELSE Sha256Hex(DigestTimes(text, k - 1))

Kinds(kind) == { k \in 1..Len(log) : log[k].kind = kind }

\* the noise assigned to column c, if the Noiser has assigned it
Noised(c) == \E e \in drawn : e.column = c

\* v + noise as a float: NaN for NaN
PlusNoise(v, noise) ==
    IF v.t = "nan" THEN NaNCell ELSE FloatCell(v.n + noise)

PerturbedBy(c, e) ==
    /\ e.column = c
    /\ \A r \in Rows(loaded) :
         df.data[c][r] = PlusNoise(loaded.data[c][r], e.noise[r])

\* ------------------------------------------------------------- C1
\* C1 (as claimed): right after mask_data returns, every cell of every
\* column named in the mask list and present in the table holds the
\* SHA-256 hex digest of str() of the cell's as-loaded value, and every
\* other column is as loaded.
C1_MaskedOnce ==
    (pc = "Noiser" /\ j = 1) =>
        \A c \in Range(df.columns) :
            IF c \in Range(mask_columns)
            THEN \A r \in Rows(loaded) :
                   df.data[c][r] = StrCell(Sha256Hex(Str(loaded.data[c][r])))
            ELSE df.data[c] = loaded.data[c] /\ df.dtype[c] = loaded.dtype[c]

\* ------------------------------------------------------------- C2
\* C2 (as claimed, for every epsilon): in the table handed to the Writer
\* every column that was loaded numeric and is not in the mask list has
\* been assigned by the Noiser, each cell being v + the noise drawn for it.
C2_PerturbedForEveryEpsilon ==
    pc = "Writer" =>
        \A c \in Range(loaded.columns) :
            (NumericAsLoaded(c) /\ c \notin Range(mask_columns)) =>
                \E e \in drawn : PerturbedBy(c, e)

\* C2 (amended): the same for every epsilon > 0; for epsilon <= 0 the noise
\* computation raises in every non-empty numeric column, which then reaches
\* the Writer with its as-loaded values.
C2_PerturbedForPositiveEpsilon ==
    pc = "Writer" =>
        \A c \in Range(loaded.columns) :
            (NumericAsLoaded(c) /\ c \notin Range(mask_columns)) =>
                IF epsilon > 0
                THEN c \in selected /\ df.dtype[c] = "float64"
                     /\ \E e \in drawn : PerturbedBy(c, e)
                ELSE c \in selected /\ ~Noised(c)
                     /\ df.data[c] = loaded.data[c]

C2_Witness ==
    /\ pc = "Writer"
    /\ epsilon > 0
    /\ NumericAsLoaded("age")
    /\ "age" \notin Range(mask_columns)
    /\ NRows(loaded) = 2
    /\ \E e \in drawn : PerturbedBy("age", e) /\ e.noise[1] # 0 /\ e.noise[2] # e.noise[1]

\* ------------------------------------------------------------- C3
\* C3: a column mask_data has hashed is never handed to create_noisy_data
\* and never gets noise assigned; once the Masker is over its cells are
\* strings and its dtype is object.
C3_MaskedNeverNoised ==
    /\ hashed \cap selected = {}
    /\ \A c \in hashed : ~Noised(c)
    /\ \A c \in hashed :
         NRows(loaded) > 0 =>
            /\ df.dtype[c] = "object"
            /\ \A r \in Rows(loaded) : df.data[c][r].t = "str"

C3_Witness ==
    /\ pc = "done"
    /\ "age" \in hashed
    /\ NumericAsLoaded("age")
    /\ epsilon > 0
    /\ Noised("age") = FALSE
    /\ NRows(loaded) = 2

\* ------------------------------------------------------------- C4
\* the text to_csv writes for row r of column c, from the loaded value
ExpectedField(c, r) ==
    IF c \in hashed
    THEN DigestTimes(Str(loaded.data[c][r]), Occurrences(c, Len(mask_columns)))
    ELSE IF Noised(c)
    THEN LET e == CHOOSE e \in drawn : e.column = c
             v == PlusNoise(loaded.data[c][r], e.noise[r])
         IN  IF v.t = "nan" THEN "" ELSE IntToStr(v.n) \o ".0"
    ELSE IF loaded.data[c][r].t = "nan" THEN "" ELSE Str(loaded.data[c][r])

\* cell is the value read for the field text of the input file
ReadFrom(text, cell) ==
    IF text \in NaStrings THEN cell = NaNCell
    ELSE IF cell.t \in {"int", "float"}
    THEN IsIntText(text) /\ cell.n = ParseInt(text)
    ELSE cell = StrCell(text)

\* C4: the table keeps the loaded column names, in order, and the loaded
\* number of rows through the Masker and the Noiser; a written file has
\* that header and, at each row position, the fields derived from the
\* fields of the input row at the same position.
C4_ShapePreserved ==
    /\ df.columns = loaded.columns
    /\ \A c \in Range(df.columns) : Len(df.data[c]) = NRows(loaded)
    /\ LoadSucceeded =>
         /\ loaded.columns = Header
         /\ NRows(loaded) = Len(input_file.rows)
         /\ \A r \in Rows(loaded) : \A k \in 1..Len(Header) :
              ReadFrom(input_file.rows[r][k], loaded.data[Header[k]][r])
    /\ written.exists =>
         /\ written.header = Header
         /\ Len(written.rows) = Len(input_file.rows)
         /\ \A r \in 1..Len(written.rows) :
              /\ Len(written.rows[r]) = Len(Header)
              /\ \A k \in 1..Len(Header) :
                   written.rows[r][k] = ExpectedField(Header[k], r)

C4_Witness ==
    /\ written.exists
    /\ Len(written.rows) = 2
    /\ input_file.rows[1] # input_file.rows[2]
    /\ "ssn" \in Range(mask_columns)
    /\ "name" \in hashed
    /\ Kinds("noise_error") # {}

\* ------------------------------------------------------------- C5
\* C5: when the mask list names a column the loaded table lacks, the run
\* still ends with one diagnostic per absent name, every present named
\* column hashed (once per occurrence in the list), every numeric column
\* handed to the Noiser, and the Writer run: the file is written unless
\* the write itself fails.
C5_AbsentNameDoesNotAbort ==
    (LoadSucceeded /\ \E k \in 1..Processed : Absent(mask_columns[k])) =>
        /\ \A n \in { mask_columns[k] : k \in 1..Processed } :
             IF Absent(n)
             THEN Cardinality({ k \in Kinds("hash_error") : log[k].column = n })
                    = Occurrences(n, Processed)
             ELSE /\ n \in hashed
                  /\ \A r \in Rows(loaded) :
                       df.data[n][r] =
                         StrCell(DigestTimes(Str(loaded.data[n][r]),
                                             Occurrences(n, Processed)))
        /\ ~escaped
        /\ pc # "done" \/ Processed = Len(mask_columns)
        /\ pc = "done" =>
             /\ selected = { c \in Range(loaded.columns) :
                               NumericAsLoaded(c) /\ c \notin Range(mask_columns) }
             /\ Entered("Noiser") /\ Entered("Writer")
             /\ written.exists = writable

C5_Witness ==
    /\ pc = "done"
    /\ mask_columns = <<"ssn", "name">>
    /\ "name" \in hashed
    /\ selected = {"age"}
    /\ NRows(loaded) = 2
    /\ written.exists

\* ------------------------------------------------------------- C6
\* C6: when reading fails, the run is over after the Loader with exactly
\* one diagnostic, of the kind of the failure: the Masker, the Noiser and
\* the Writer are never entered and no output file exists.
C6_LoadFailureAborts ==
    (input_file.kind # "ok" /\ (pc # "Loader" \/ log # <<>>)) =>
        /\ pc = "done"
        /\ stages = <<"Loader">>
        /\ hashed = {} /\ selected = {} /\ drawn = {}
        /\ df = NoDf
        /\ written = NoFile
        /\ ~escaped
        /\ Len(log) = 1
        /\ log[1].kind = CASE input_file.kind = "missing" -> "not_found"
                           [] input_file.kind = "malformed" -> "parse_error"
                           [] OTHER -> "read_error"

C6_Witness ==
    /\ pc = "done"
    /\ input_file.kind = "malformed"
    /\ mask_columns # <<>>
    /\ writable
    /\ log # <<>>

\* ------------------------------------------------------------- C7
\* C7: no exception leaves anonymize_csv: a run that is not over is at one
\* of the steps of anonymize_csv (it goes on to the return), and at the end
\* every failure has its
\* diagnostic (the read, each absent mask name, each numeric column whose
\* noise raised, the write).
C7_NoExceptionEscapes ==
    /\ ~escaped
    /\ pc # "done" => \/ AtLoad \/ AtMaskColumn \/ AtMaskReturn
                      \/ AtNoiseColumn \/ AtNoiseReturn \/ AtWrite
    /\ pc = "done" =>
         IF input_file.kind # "ok"
         THEN Len(log) = 1 /\ log[1].exc # NoException
         ELSE /\ Cardinality(Kinds("hash_error"))
                   = Cardinality({ k \in 1..Len(mask_columns) :
                                     Absent(mask_columns[k]) })
              /\ { log[k].column : k \in Kinds("noise_error") }
                   = { c \in selected : ~Noised(c) }
              /\ Cardinality(Kinds("noise_error"))
                   = Cardinality({ c \in selected : ~Noised(c) })
              /\ Cardinality(Kinds("write_error")) = (IF writable THEN 0 ELSE 1)
              /\ Cardinality(Kinds("written")) = (IF writable THEN 1 ELSE 0)

C7_Witness ==
    /\ pc = "done"
    /\ Kinds("hash_error") # {}
    /\ Kinds("noise_error") # {}
    /\ Kinds("write_error") # {}

\* ------------------------------------------------------------- C8
\* C8 (as claimed): at the end of every invocation each of Loader, Masker,
\* Noiser and Writer has run exactly once, in that order.
C8_AllFourExactlyOnce ==
    pc = "done" => stages = Order

\* C8 (amended): the components entered are always a prefix of Loader,
\* Masker, Noiser, Writer (none twice, none out of order), the one running
\* is the last entered and the loops of the earlier ones are exhausted;
\* a run whose load succeeds ends having run all four, a run whose load
\* fails ends having run the Loader only.
C8_StagesInOrder ==
    /\ IsPrefix(stages, Order)
    /\ pc # "done" => pc = stages[Len(stages)]
    /\ (Entered("Noiser") /\ input_file.kind = "ok") => i = Len(mask_columns) + 1
    /\ Entered("Writer") => j = Len(df.columns) + 1
    /\ pc = "done" =>
         stages = IF input_file.kind = "ok" THEN Order ELSE <<"Loader">>

C8_Witness ==
    /\ pc = "done"
    /\ stages = Order
    /\ Len(mask_columns) = 2
    /\ NRows(loaded) = 2

\* ------------------------------------------------------------- C9
\* C9: the value mask_data leaves in a cell is a function of the cell's
\* as-loaded value and of the mask list alone (the digest applied once per
\* occurrence of the column in the list): it is the same for two cells of
\* the column with the same value, and the same whatever epsilon, the
\* noise sampled, the other columns or the rest of the run.
C9_MaskingDeterministic ==
    \A c \in hashed :
        /\ \A r \in Rows(loaded) :
             df.data[c][r] =
               StrCell(DigestTimes(Str(loaded.data[c][r]), Occurrences(c, Processed)))
        /\ \A r1, r2 \in Rows(loaded) :
             loaded.data[c][r1] = loaded.data[c][r2] =>
                df.data[c][r1] = df.data[c][r2]

C9_Witness ==
    /\ pc = "done"
    /\ "name" \in hashed
    /\ NRows(loaded) = 2
    /\ loaded.data["name"][1] = loaded.data["name"][2]
    /\ loaded.data["age"][1] # loaded.data["age"][2]
    /\ epsilon = 2
    /\ Noised("age")

\* ------------------------------------------------------------- C10
\* a step in which mask_data or create_noisy_data printed its diagnostic
ColumnFailureStep ==
    /\ Len(log') = Len(log) + 1
    /\ log'[Len(log')].kind \in {"hash_error", "noise_error"}

\* every cell of column c is as loaded, or every cell is a digest, or every
\* cell is the loaded value plus its noise
ColumnWhole(c) ==
    \/ df.data[c] = loaded.data[c]
    \/ \A r \in Rows(loaded) :
         df.data[c][r] =
           StrCell(DigestTimes(Str(loaded.data[c][r]), Occurrences(c, Processed)))
    \/ \E e \in drawn : PerturbedBy(c, e)

\* C10: a step in which masking or noising a column fails leaves the whole
\* table as it was, and no column is ever partly modified.
C10_ColumnFailureAtomic ==
    /\ [](\A c \in Range(df.columns) : ColumnWhole(c))
    /\ [][ColumnFailureStep => df' = df]_vars

C10_Witness ==
    /\ pc = "done"
    /\ NRows(loaded) = 2
    /\ Kinds("hash_error") # {}
    /\ Kinds("noise_error") # {}
    /\ "name" \in hashed
    /\ df.data["age"] = loaded.data["age"]
    /\ df.data["name"] # loaded.data["name"]

====
